---- MODULE Spec2Model ----
(***************************************************************************)
(* Market Data API: the FastAPI route handlers (main.py, routes/options.py)*)
(* behind the PrometheusMiddleware (metrics.py), with the process-wide     *)
(* Prometheus registry as the only shared state.                           *)
(*                                                                         *)
(* A request goes through the suspension points of the code:               *)
(*   idle --dispatch_enter--> called --route handler--> returned           *)
(*        --dispatch_return / dispatch_except--> done                      *)
(* dispatch runs synchronously up to `await call_next(request)`; a route   *)
(* handler never yields (its provider calls are blocking calls), so it is  *)
(* one step; dispatch resumes when call_next has a response or raises.     *)
(***************************************************************************)
EXTENDS Integers, Sequences, FiniteSets, TLC

VARIABLES
    workload,         \* which clients drive the server: "single" or "concurrent"
    reqs,             \* per request: position in dispatch, inputs, provider data, outcome
    REQUEST_COUNT,    \* Counter   market_data_requests_total{endpoint}
    REQUEST_LATENCY,  \* Histogram request_latency_seconds{endpoint}: observation count
    YFINANCE_CALLS,   \* Histogram yfinance_api_duration_seconds{operation}: observation count
    SYMBOL_REQUESTS,  \* Counter   stock_symbol_requests_total{symbol}
    ERROR_COUNT       \* Counter   market_data_errors_total{error_type}

vars == <<workload, reqs, REQUEST_COUNT, REQUEST_LATENCY, YFINANCE_CALLS,
          SYMBOL_REQUESTS, ERROR_COUNT>>

\* Requests of the concurrent workload (all may be in flight together).
MaxRequests == 2
\* Longest comma-separated list a client sends to /stocks/batch.
MaxTickers == 2

Slots == 1..MaxRequests
Symbols == {"AAPL", "ZZZ"}
Dates == {"2026-01-16", "2026-02-20"}
NoDate == "None"

(***************************************************************************)
(* Values                                                                  *)
(***************************************************************************)
NoValue == [kind |-> "none"]
Return(body) == [kind |-> "return", body |-> body]
Raise(type, message) == [kind |-> "raise", type |-> type, status |-> 0, detail |-> message]
HTTPException(status_code, detail) ==
    [kind |-> "raise", type |-> "HTTPException", status |-> status_code, detail |-> detail]
Response(status_code, body) == [kind |-> "response", status |-> status_code, body |-> body]
Propagated(type) == [kind |-> "exception", type |-> type]

\* What the provider answers to one call.
ProviderError == [ok |-> FALSE, value |-> <<>>]
Ok(value) == [ok |-> TRUE, value |-> value]
NotAsked == [ok |-> FALSE, value |-> <<"not asked">>]

StatusText(status_code) ==
    CASE status_code = 404 -> "404:"
      [] status_code = 400 -> "400:"
      [] OTHER -> "0:"

\* str(e): an HTTPException prints as "<status>: <detail>", any other exception as its message.
Str(e) == IF e.type = "HTTPException" THEN <<StatusText(e.status)>> \o e.detail ELSE e.detail

\* try: <block>  except Exception as e: raise HTTPException(status_code=400, detail=str(e))
\* HTTPException is an Exception, so one raised inside the block is caught as well.
ExceptAs400(block) ==
    IF block.kind = "raise" THEN HTTPException(400, Str(block)) ELSE block

\* What a provider failure raises inside a handler.
ProviderRaise == Raise("Exception", <<"provider error">>)

Last(s) == s[Len(s)]

(***************************************************************************)
(* Registry                                                                *)
(***************************************************************************)
\* metric.labels(label) makes the child on first use; value of an absent child is 0.
Value(metric, label) == IF label \in DOMAIN metric THEN metric[label] ELSE 0

\* inc() as a lost update: the child is written from a stale zero.
IncLost(metric, label) == (label :> 1) @@ metric

\* metric.labels(label).inc() / .observe(duration): one more sample under the label.
Inc(metric, label) ==
    IF label \in DOMAIN metric
    THEN [metric EXCEPT ![label] = @ + 1]
    ELSE metric @@ (label :> 1)

RECURSIVE IncAll(_, _)
IncAll(metric, labels) ==
    IF labels = <<>> THEN metric
    ELSE IncAll(Inc(metric, Head(labels)), Tail(labels))

RECURSIVE Total(_)
Total(metric) ==
    IF DOMAIN metric = {} THEN 0
    ELSE LET l == CHOOSE x \in DOMAIN metric : TRUE
         IN  metric[l] + Total([x \in DOMAIN metric \ {l} |-> metric[x]])

\* generate_latest(): one sample line per child of every metric.
Samples(name, metric) == {<<name, l, metric[l]>> : l \in DOMAIN metric}

generate_latest(rc, rl, yc, sr, ec) ==
    Samples("market_data_requests_total", rc)
    \cup Samples("request_latency_seconds_count", rl)
    \cup Samples("yfinance_api_duration_seconds_count", yc)
    \cup Samples("stock_symbol_requests_total", sr)
    \cup Samples("market_data_errors_total", ec)

(***************************************************************************)
(* Routes and requests                                                     *)
(***************************************************************************)
TickerRoutes == {"price", "historical", "info", "dividends", "earnings", "options"}
Routes == {"root", "metrics", "batch"} \cup TickerRoutes

\* The path template each route is registered under.
RouteTemplate(route) ==
    CASE route = "root" -> <<>>
      [] route = "metrics" -> <<"metrics">>
      [] route = "batch" -> <<"stocks", "batch">>
      [] OTHER -> <<"stock", "{ticker}", route>>

RouteTemplates == {RouteTemplate(r) : r \in Routes}

\* request.url.path: the path the client asked for, the ticker filled in.
url_path(request) ==
    LET t == RouteTemplate(request.route)
    IN  [k \in DOMAIN t |-> IF t[k] = "{ticker}" THEN request.ticker ELSE t[k]]

DefaultQuery ==
    [interval |-> "1d", period |-> "1mo", frequency |-> "yearly", date |-> NoDate,
     tickers |-> <<>>]

Request(route, ticker, query) == [route |-> route, ticker |-> ticker, query |-> query]

\* tickers.split(','): the query string is held as its comma-separated segments
\* (an empty string has one empty segment, so the list is never empty).
TickerLists(syms, n) == UNION {[1..k -> syms \cup {""}] : k \in 1..n}

RequestsOf(syms, periods, frequencies, dates, lists) ==
    {Request("root", "", DefaultQuery), Request("metrics", "", DefaultQuery)}
    \cup {Request(r, t, DefaultQuery) : r \in {"price", "info", "dividends"}, t \in syms}
    \cup {Request("historical", t, [DefaultQuery EXCEPT !.period = p]) :
            t \in syms, p \in periods}
    \cup {Request("earnings", t, [DefaultQuery EXCEPT !.frequency = f]) :
            t \in syms, f \in frequencies}
    \cup {Request("options", t, [DefaultQuery EXCEPT !.date = d]) : t \in syms, d \in dates}
    \cup {Request("batch", "", [DefaultQuery EXCEPT !.tickers = l]) : l \in lists}

\* The single client tries every input of every route. The concurrent clients are a
\* health probe, a metrics scraper and pollers of the price of either symbol and of
\* a one-ticker batch.
Requests(w) ==
    IF w = "single"
    THEN RequestsOf(Symbols, {"1mo", "1d"}, {"yearly", "quarterly"}, Dates \cup {NoDate},
                    TickerLists(Symbols, MaxTickers))
    ELSE {r \in RequestsOf(Symbols, {"1mo"}, {"yearly"}, {NoDate}, {<<"AAPL">>}) :
            r.route \in {"root", "metrics", "price", "batch"}}

NumRequests(w) == IF w = "single" THEN 1 ELSE MaxRequests

(***************************************************************************)
(* Provider data (yfinance)                                                *)
(***************************************************************************)
\* A provider scalar (numpy.float64, numpy.int64) and its conversion by float() / int().
Np(dtype, item) == [dtype |-> dtype, item |-> item]
float(x) == x.item
int(x) == x.item

\* The rows the provider has for a ticker that trades: two bars, oldest first.
Rows(ticker) ==
    LET base == CASE ticker = "AAPL" -> 10 [] ticker = "ZZZ" -> 20 [] OTHER -> 30
    IN  <<[Date |-> "day1", Close |-> Np("float64", base), Volume |-> Np("int64", base * 10)],
          [Date |-> "day2", Close |-> Np("float64", base + 1),
           Volume |-> Np("int64", base * 10 + 5)]>>

\* stock.history(...): fails, has no rows, or has the ticker's rows.
Histories(ticker) == {ProviderError, Ok(<<>>), Ok(Rows(ticker))}

InfoFields ==
    [longName |-> "longName", sector |-> "sector", industry |-> "industry",
     website |-> "website", marketCap |-> "marketCap", employees |-> "fullTimeEmployees",
     country |-> "country", city |-> "city", summary |-> "longBusinessSummary",
     currency |-> "currency", exchange |-> "exchange"]

\* stock.info: fails, or a mapping holding all, one or none of the keys.
Infos ==
    {ProviderError, Ok(<<>>), Ok([k \in {"longName"} |-> "Apple Inc."]),
     Ok([k \in {InfoFields[f] : f \in DOMAIN InfoFields} |-> "value"])}

\* stock.dividends / stock.earnings(...): fails, is empty, or has entries.
Series == {ProviderError, Ok(<<>>), Ok(<<[Date |-> "day1", value |-> 1]>>)}

Frames ==
    {ProviderError, Ok(<<>>), Ok(<<[Year |-> "2025", Revenue |-> 7, Earnings |-> 3]>>)}

Range(s) == {s[k] : k \in DOMAIN s}

Contract == [strike |-> 100, bid |-> 1, ask |-> 2]

Chains ==
    {ProviderError} \cup {Ok([calls |-> c, puts |-> p]) : c, p \in {<<>>, <<Contract>>}}

\* What the provider holds for one options request: stock.options, and
\* stock.option_chain(date) when the handler gets as far as asking for it.
OptionsData(date) ==
    {[options |-> o, chain |-> NotAsked] :
        o \in {x \in {ProviderError, Ok(<<>>), Ok(<<"2026-01-16">>)} :
                 date = NoDate \/ ~x.ok \/ date \notin Range(x.value)}}
    \cup {[options |-> Ok(<<"2026-01-16">>), chain |-> c] :
            c \in {x \in Chains : date = "2026-01-16"}}

(***************************************************************************)
(* Route handlers: the outcome and the registry children the handler bumps *)
(***************************************************************************)
Handled(out, symbols, ops) == [out |-> out, symbols |-> symbols, ops |-> ops]

health_check == Handled(Return([status |-> "online"]), <<>>, <<>>)

\* metrics_endpoint rendering a registry other than the live one.
metrics_endpoint_stale(rc, rl, yc, sr, ec) ==
    Handled(Return(generate_latest(<<>>, <<>>, <<>>, <<>>, <<>>)), <<>>, <<>>)

metrics_endpoint(rc, rl, yc, sr, ec) ==
    Handled(Return(generate_latest(rc, rl, yc, sr, ec)), <<>>, <<>>)

get_current_price(ticker, history) ==
    Handled(
        ExceptAs400(
            IF ~history.ok THEN ProviderRaise
            ELSE IF history.value = <<>>
            THEN HTTPException(404, <<"No data found for ticker", ticker>>)
            ELSE Return([ticker |-> ticker,
                         current_price |-> float(Last(history.value).Close),
                         volume |-> int(Last(history.value).Volume)])),
        <<ticker>>, <<"get_price">>)

\* history.to_dict(orient='index'): timestamp -> the bar's columns.
to_dict_index(rows) ==
    [d \in {rows[k].Date : k \in DOMAIN rows} |->
        LET k == CHOOSE j \in DOMAIN rows : rows[j].Date = d
        IN  [Close |-> rows[k].Close, Volume |-> rows[k].Volume]]

get_historical_data(ticker, interval, period, history) ==
    Handled(
        ExceptAs400(
            IF ~history.ok THEN ProviderRaise
            ELSE IF history.value = <<>>
            THEN HTTPException(404, <<"No historical data found for ticker", ticker>>)
            ELSE Return([ticker |-> ticker, interval |-> interval, period |-> period,
                         data_points |-> Len(history.value),
                         history |-> to_dict_index(history.value)])),
        <<ticker>>, <<"get_historical">>)

\* info.get(key): None when the provider has no such key.
get(info, key) == IF key \in DOMAIN info THEN info[key] ELSE "None"

get_company_info(ticker, info) ==
    Handled(
        ExceptAs400(
            IF ~info.ok THEN ProviderRaise
            ELSE Return([ticker |-> ticker,
                         company_info |->
                            [f \in DOMAIN InfoFields |-> get(info.value, InfoFields[f])]])),
        <<ticker>>, <<"get_info">>)

\* dividends.to_dict(): ex-dividend timestamp -> amount.
to_dict_series(series) ==
    [d \in {series[k].Date : k \in DOMAIN series} |->
        (CHOOSE r \in Range(series) : r.Date = d).value]

\* get_dividend_data treating an empty series like the price handler treats no rows.
get_dividend_data_404(ticker, dividends) ==
    Handled(
        ExceptAs400(
            IF ~dividends.ok THEN ProviderRaise
            ELSE IF dividends.value = <<>>
            THEN HTTPException(404, <<"No dividend data available">>)
            ELSE Return([ticker |-> ticker,
                         dividend_history |-> to_dict_series(dividends.value)])),
        <<ticker>>, <<"get_dividends">>)

get_dividend_data(ticker, dividends) ==
    Handled(
        ExceptAs400(
            IF ~dividends.ok THEN ProviderRaise
            ELSE IF dividends.value = <<>>
            THEN Return([ticker |-> ticker, dividend_history |-> "No dividend data available"])
            ELSE Return([ticker |-> ticker,
                         dividend_history |-> to_dict_series(dividends.value)])),
        <<ticker>>, <<"get_dividends">>)

\* earnings.to_dict(): column -> (period label -> value).
to_dict_frame(frame) ==
    [c \in {"Revenue", "Earnings"} |->
        [y \in {frame[k].Year : k \in DOMAIN frame} |->
            (CHOOSE r \in Range(frame) : r.Year = y)[c]]]

get_earnings_data(ticker, frequency, earnings) ==
    Handled(
        ExceptAs400(
            IF ~earnings.ok THEN ProviderRaise
            ELSE IF earnings.value = <<>>
            THEN Return([ticker |-> ticker, earnings_data |-> "No earnings data available"])
            ELSE Return([ticker |-> ticker, frequency |-> frequency,
                         earnings_data |-> to_dict_frame(earnings.value)])),
        <<ticker>>, <<"get_earnings">>)

\* One pass of the loop body: the entry results[ticker] gets.
batch_entry(history) ==
    IF ~history.ok THEN [error |-> "Failed to fetch data: provider error"]
    ELSE IF history.value # <<>>
    THEN [current_price |-> Last(history.value).Close,
          volume |-> Last(history.value).Volume]
    ELSE [error |-> "No data found"]

RECURSIVE batch_loop(_, _, _)
batch_loop(ticker_list, histories, results) ==
    IF ticker_list = <<>> THEN results
    ELSE batch_loop(Tail(ticker_list), histories,
                    (Head(ticker_list) :> batch_entry(histories[Head(ticker_list)]))
                        @@ results)

\* get_multiple_stocks without the inner try: one failing ticker fails the call.
get_multiple_stocks_failfast(ticker_list, histories) ==
    Handled(
        ExceptAs400(
            IF \E k \in DOMAIN ticker_list : ~histories[ticker_list[k]].ok
            THEN ProviderRaise
            ELSE Return(batch_loop(ticker_list, histories, <<>>))),
        <<>>, <<>>)

get_multiple_stocks(ticker_list, histories) ==
    Handled(ExceptAs400(Return(batch_loop(ticker_list, histories, <<>>))), <<>>, <<>>)

get_options_chain(ticker, date, options, chain) ==
    LET block ==
            IF ~options.ok THEN ProviderRaise
            ELSE IF date = NoDate
            THEN IF options.value = <<>>
                 THEN Return([ticker |-> ticker, options_dates |-> <<>>])
                 ELSE Return([ticker |-> ticker, options_dates |-> options.value])
            ELSE IF date \notin Range(options.value)
            THEN HTTPException(404, <<"Expiration date", date, "not found for", ticker>>)
            ELSE IF ~chain.ok THEN ProviderRaise
            ELSE IF chain.value.calls = <<>> /\ chain.value.puts = <<>>
            THEN HTTPException(404, <<"No options data found for", ticker, "on", date>>)
            ELSE Return([ticker |-> ticker, expiration |-> date,
                         calls |-> chain.value.calls, puts |-> chain.value.puts])
    IN  Handled(
            IF block.kind = "raise"
            THEN HTTPException(400, <<"Error fetching options data:">> \o Str(block))
            ELSE block,
            <<>>, <<>>)

(***************************************************************************)
(* The application below the middleware, and the middleware                *)
(***************************************************************************)
\* call_next(request) when the route handler ran: the app's exception layer sits
\* inside the user middleware, so an HTTPException a handler raises comes back to
\* dispatch as the response with its status; a returned value is the 200 response.
call_next(out) ==
    IF out.kind = "raise"
    THEN Response(out.status, [detail |-> out.detail])
    ELSE Response(200, out.body)

\* Exceptions that escape the application instead of a response.
ServerErrors == {"RuntimeError", "ValueError"}

\* dispatch re-raising without counting the error.
dispatch_resume_silent(latency, errors, endpoint, result) ==
    IF result.kind = "exception"
    THEN [REQUEST_LATENCY |-> latency, ERROR_COUNT |-> errors, sent |-> result]
    ELSE [REQUEST_LATENCY |-> Inc(latency, endpoint), ERROR_COUNT |-> errors,
          sent |-> result]

\* dispatch after `await call_next(request)`: observe the latency and return the
\* response, or count the error under the exception's type name and re-raise it.
dispatch_resume(latency, errors, endpoint, result) ==
    IF result.kind = "exception"
    THEN [REQUEST_LATENCY |-> latency, ERROR_COUNT |-> Inc(errors, result.type),
          sent |-> result]
    ELSE [REQUEST_LATENCY |-> Inc(latency, endpoint), ERROR_COUNT |-> errors,
          sent |-> result]

Idle ==
    [pc |-> "idle", request |-> NoValue, upstream |-> NoValue, handler |-> NoValue,
     result |-> NoValue, sent |-> NoValue]

Init ==
    /\ workload \in {"single", "concurrent"}
    /\ reqs = [i \in Slots |-> Idle]
    /\ REQUEST_COUNT = <<>>
    /\ REQUEST_LATENCY = <<>>
    /\ YFINANCE_CALLS = <<>>
    /\ SYMBOL_REQUESTS = <<>>
    /\ ERROR_COUNT = <<>>

\* dispatch up to `await call_next(request)`: a request arrives and is counted
\* under its path. Requests are numbered in the order they arrive.
dispatch_enter(i) ==
    /\ i <= NumRequests(workload)
    /\ reqs[i].pc = "idle"
    /\ \A j \in 1..(i - 1) : reqs[j].pc # "idle"
    /\ \E request \in Requests(workload) :
        /\ REQUEST_COUNT' = Inc(REQUEST_COUNT, url_path(request))
        /\ reqs' = [reqs EXCEPT ![i] = [@ EXCEPT !.pc = "called", !.request = request]]
    /\ UNCHANGED <<workload, REQUEST_LATENCY, YFINANCE_CALLS, SYMBOL_REQUESTS, ERROR_COUNT>>

Routed(i, route) == reqs[i].pc = "called" /\ reqs[i].request.route = route

\* The route handler of request i runs on the provider data `upstream`.
Serve(i, upstream, h) ==
    /\ SYMBOL_REQUESTS' = IncAll(SYMBOL_REQUESTS, h.symbols)
    /\ YFINANCE_CALLS' = IncAll(YFINANCE_CALLS, h.ops)
    /\ reqs' = [reqs EXCEPT ![i] = [@ EXCEPT !.pc = "returned", !.upstream = upstream,
                                              !.handler = h.out,
                                              !.result = call_next(h.out)]]
    /\ UNCHANGED <<workload, REQUEST_COUNT, REQUEST_LATENCY, ERROR_COUNT>>

serve_health_check(i) ==
    /\ Routed(i, "root")
    /\ Serve(i, NoValue, health_check)

serve_get_metrics(i) ==
    /\ Routed(i, "metrics")
    /\ Serve(i, NoValue, metrics_endpoint(REQUEST_COUNT, REQUEST_LATENCY, YFINANCE_CALLS,
                                          SYMBOL_REQUESTS, ERROR_COUNT))

serve_get_current_price(i) ==
    /\ Routed(i, "price")
    /\ \E history \in Histories(reqs[i].request.ticker) :
        Serve(i, history, get_current_price(reqs[i].request.ticker, history))

serve_get_historical_data(i) ==
    /\ Routed(i, "historical")
    /\ \E history \in Histories(reqs[i].request.ticker) :
        Serve(i, history,
              get_historical_data(reqs[i].request.ticker, reqs[i].request.query.interval,
                                  reqs[i].request.query.period, history))

serve_get_company_info(i) ==
    /\ Routed(i, "info")
    /\ \E info \in Infos : Serve(i, info, get_company_info(reqs[i].request.ticker, info))

serve_get_dividend_data(i) ==
    /\ Routed(i, "dividends")
    /\ \E dividends \in Series :
        Serve(i, dividends, get_dividend_data(reqs[i].request.ticker, dividends))

serve_get_earnings_data(i) ==
    /\ Routed(i, "earnings")
    /\ \E earnings \in Frames :
        Serve(i, earnings,
              get_earnings_data(reqs[i].request.ticker, reqs[i].request.query.frequency,
                                earnings))

\* The provider's answer for each distinct ticker of the list.
BatchData(ticker_list) ==
    {h \in [Range(ticker_list) -> UNION {Histories(t) : t \in Range(ticker_list)}] :
        \A t \in Range(ticker_list) : h[t] \in Histories(t)}

serve_get_multiple_stocks(i) ==
    /\ Routed(i, "batch")
    /\ \E histories \in BatchData(reqs[i].request.query.tickers) :
        Serve(i, histories, get_multiple_stocks(reqs[i].request.query.tickers, histories))

serve_get_options_chain(i) ==
    /\ Routed(i, "options")
    /\ \E data \in OptionsData(reqs[i].request.query.date) :
        Serve(i, data,
              get_options_chain(reqs[i].request.ticker, reqs[i].request.query.date,
                                data.options, data.chain))

\* call_next raises: the application fails outside the handlers' own try blocks.
call_next_raises(i) ==
    /\ reqs[i].pc = "called"
    /\ \E type \in ServerErrors :
        reqs' = [reqs EXCEPT ![i] = [@ EXCEPT !.pc = "returned",
                                                !.result = Propagated(type)]]
    /\ UNCHANGED <<workload, REQUEST_COUNT, REQUEST_LATENCY, YFINANCE_CALLS,
                   SYMBOL_REQUESTS, ERROR_COUNT>>

Resume(i) ==
    LET after == dispatch_resume(REQUEST_LATENCY, ERROR_COUNT, url_path(reqs[i].request),
                                 reqs[i].result)
    IN  /\ REQUEST_LATENCY' = after.REQUEST_LATENCY
        /\ ERROR_COUNT' = after.ERROR_COUNT
        /\ reqs' = [reqs EXCEPT ![i] = [@ EXCEPT !.pc = "done", !.sent = after.sent]]
        /\ UNCHANGED <<workload, REQUEST_COUNT, YFINANCE_CALLS, SYMBOL_REQUESTS>>

dispatch_return(i) ==
    /\ reqs[i].pc = "returned"
    /\ reqs[i].result.kind = "response"
    /\ Resume(i)

dispatch_except(i) ==
    /\ reqs[i].pc = "returned"
    /\ reqs[i].result.kind = "exception"
    /\ Resume(i)

Next ==
    \E i \in Slots :
        \/ dispatch_enter(i)
        \/ serve_health_check(i)
        \/ serve_get_metrics(i)
        \/ serve_get_current_price(i)
        \/ serve_get_historical_data(i)
        \/ serve_get_company_info(i)
        \/ serve_get_dividend_data(i)
        \/ serve_get_earnings_data(i)
        \/ serve_get_multiple_stocks(i)
        \/ serve_get_options_chain(i)
        \/ call_next_raises(i)
        \/ dispatch_return(i)
        \/ dispatch_except(i)

Spec == Init /\ [][Next]_vars

(***************************************************************************)
(* Properties                                                              *)
(***************************************************************************)
Done(i) == reqs[i].pc = "done"
\* The route handler of request i has run (call_next did not fail before it).
Ran(i) == reqs[i].pc \in {"returned", "done"} /\ reqs[i].handler.kind # "none"
Route(i) == reqs[i].request.route
Completed(l) == {i \in Slots : Done(i) /\ url_path(reqs[i].request) = l}
Failed(l) == {i \in Completed(l) : reqs[i].sent.kind = "exception"}
Answered(l) == {i \in Completed(l) : reqs[i].sent.kind = "response"}
InFlight(l) ==
    {i \in Slots : reqs[i].pc \in {"called", "returned"} /\ url_path(reqs[i].request) = l}
Paths == {url_path(r) : r \in Requests(workload)}
Registry ==
    <<REQUEST_COUNT, REQUEST_LATENCY, YFINANCE_CALLS, SYMBOL_REQUESTS, ERROR_COUNT>>
MetricsPath == <<"metrics">>

\* C1 (as claimed): a price or historical request whose provider history is empty
\* ends with status 404.
C1_EmptyHistoryEnds404 ==
    \A i \in Slots :
        (Done(i) /\ Ran(i) /\ Route(i) \in {"price", "historical"}
            /\ reqs[i].upstream = Ok(<<>>))
        => (reqs[i].sent.kind = "response" /\ reqs[i].sent.status = 404)

\* C2 (as claimed): an options request with a date ends 404 when the date is not
\* among the provider's expirations, 404 when it is and both sides are empty, and
\* 200 with that expiration and both sides when at least one side has contracts.
C2_OptionsDateStatuses ==
    \A i \in Slots :
        (Done(i) /\ Ran(i) /\ Route(i) = "options" /\ reqs[i].request.query.date # NoDate
            /\ reqs[i].upstream.options.ok)
        => LET date == reqs[i].request.query.date
               data == reqs[i].upstream
               sent == reqs[i].sent
           IN  /\ date \notin Range(data.options.value) => sent.status = 404
               /\ (date \in Range(data.options.value) /\ data.chain.ok
                     /\ data.chain.value.calls = <<>> /\ data.chain.value.puts = <<>>)
                  => sent.status = 404
               /\ (date \in Range(data.options.value) /\ data.chain.ok
                     /\ ~(data.chain.value.calls = <<>> /\ data.chain.value.puts = <<>>))
                  => (/\ sent.status = 200
                      /\ sent.body.expiration = date
                      /\ sent.body.calls = data.chain.value.calls
                      /\ sent.body.puts = data.chain.value.puts)

\* C3 (as claimed): once the N requests to a path have all completed, the request
\* counter of the path is N and its latency histogram holds N observations.
C3_CounterAndHistogramEqualN ==
    \A l \in Paths :
        InFlight(l) = {}
        => (/\ Value(REQUEST_COUNT, l) = Cardinality(Completed(l))
            /\ Value(REQUEST_LATENCY, l) = Cardinality(Completed(l)))

\* C3 (amended): once the N requests to a path have all completed, the request
\* counter of the path is N, and its latency histogram holds one observation per
\* request that ended with a response (none for a request whose failure went
\* through the middleware).
C3_CounterEqualsN_LatencyEqualsAnswered ==
    \A l \in Paths :
        InFlight(l) = {}
        => (/\ Value(REQUEST_COUNT, l) = Cardinality(Completed(l))
            /\ Value(REQUEST_LATENCY, l) = Cardinality(Answered(l)))

\* Two requests to one path have completed, one answered and one failed.
C3_Witness ==
    \E l \in Paths :
        /\ InFlight(l) = {}
        /\ Cardinality(Completed(l)) = 2
        /\ Cardinality(Answered(l)) = 1
        /\ Value(REQUEST_COUNT, l) = 2

C5_EmptySeriesIsSentinel ==
    \A i \in Slots :
        (Done(i) /\ Ran(i) /\ Route(i) \in {"dividends", "earnings"}
            /\ reqs[i].upstream = Ok(<<>>))
        => (/\ reqs[i].sent.kind = "response"
            /\ reqs[i].sent.status = 200
            /\ Route(i) = "dividends"
               => reqs[i].sent.body.dividend_history = "No dividend data available"
            /\ Route(i) = "earnings"
               => reqs[i].sent.body.earnings_data = "No earnings data available")

\* An empty dividend series, or an empty quarterly earnings frame, was served.
C5_Witness ==
    \E i \in Slots :
        /\ Done(i) /\ Ran(i) /\ reqs[i].upstream = Ok(<<>>)
        /\ reqs[i].sent.status = 200
        /\ \/ Route(i) = "dividends"
           \/ Route(i) = "earnings" /\ reqs[i].request.query.frequency = "quarterly"

\* C6 (as claimed): when the route handler of a request fails, the middleware
\* counts the failure once under its kind and the request ends with that failure.
C6_HandlerFailureCountedAndPropagated ==
    \A i \in Slots :
        (Done(i) /\ Ran(i) /\ reqs[i].handler.kind = "raise")
        => (/\ reqs[i].sent.kind = "exception"
            /\ reqs[i].sent.type = reqs[i].handler.type
            /\ Value(ERROR_COUNT, reqs[i].handler.type) >= 1)

\* C7 (as claimed): every endpoint label of the request counter and of the latency
\* histogram is the path template of a route.
C7_LabelsAreRouteTemplates ==
    (DOMAIN REQUEST_COUNT \cup DOMAIN REQUEST_LATENCY) \subseteq RouteTemplates

\* A step of request i, a GET /metrics.
MetricsStep(i) ==
    /\ reqs'[i] # reqs[i]
    /\ reqs'[i].request.route = "metrics"

\* C8 (as claimed): no step of a /metrics request changes any metric.
C8_MetricsRequestChangesNoMetric ==
    [][\A i \in Slots : MetricsStep(i) => Registry' = Registry]_vars

\* C8 (amended): the /metrics handler answers 200 with the rendering of the
\* registry as it is when the handler runs and changes no metric; of the whole
\* request only the middleware's own records change: samples labelled /metrics of
\* the request counter and the latency histogram, or the error counter when the
\* application raised.
C8_MetricsHandlerOnlyReads ==
    [][\A i \in Slots :
        MetricsStep(i)
        => /\ (reqs'[i].pc = "returned" /\ reqs'[i].handler.kind # "none")
              => /\ Registry' = Registry
                 /\ reqs'[i].result =
                        Response(200, generate_latest(REQUEST_COUNT, REQUEST_LATENCY,
                                                      YFINANCE_CALLS, SYMBOL_REQUESTS,
                                                      ERROR_COUNT))
           /\ YFINANCE_CALLS' = YFINANCE_CALLS
           /\ SYMBOL_REQUESTS' = SYMBOL_REQUESTS
           /\ reqs'[i].pc = "done" \/ ERROR_COUNT' = ERROR_COUNT
           /\ \A l \in (DOMAIN REQUEST_COUNT' \cup DOMAIN REQUEST_LATENCY') \ {MetricsPath} :
                /\ Value(REQUEST_COUNT', l) = Value(REQUEST_COUNT, l)
                /\ Value(REQUEST_LATENCY', l) = Value(REQUEST_LATENCY, l)]_vars

\* A /metrics request was answered with a scrape showing its own count, and its
\* latency was observed.
C8_Witness ==
    \E i \in Slots :
        /\ Done(i) /\ Ran(i) /\ Route(i) = "metrics"
        /\ reqs[i].sent.status = 200
        /\ <<"market_data_requests_total", MetricsPath, 1>> \in reqs[i].sent.body
        /\ Value(REQUEST_LATENCY, MetricsPath) = 1

UpstreamRoutes ==
    {"price", "historical", "info", "dividends", "earnings", "batch", "options"}

\* C9 (as claimed): every request served by a handler that calls the provider left
\* at least one observation in the upstream-call histogram.
C9_UpstreamCallsAreTimed ==
    Total(YFINANCE_CALLS)
        >= Cardinality({i \in Slots : Ran(i) /\ Route(i) \in UpstreamRoutes})

Accounting ==
    /\ \A l \in Paths \cup DOMAIN REQUEST_COUNT \cup DOMAIN REQUEST_LATENCY :
        /\ Value(REQUEST_COUNT, l)
             = Value(REQUEST_LATENCY, l) + Cardinality(Failed(l)) + Cardinality(InFlight(l))
        /\ Value(REQUEST_LATENCY, l) = Cardinality(Answered(l))
    /\ \A type \in ServerErrors \cup DOMAIN ERROR_COUNT :
        Value(ERROR_COUNT, type)
            = Cardinality({i \in Slots : Done(i) /\ reqs[i].sent = Propagated(type)})

NeverDecreases(metric, metric_after) ==
    \A l \in DOMAIN metric : l \in DOMAIN metric_after /\ metric_after[l] >= metric[l]

\* C10: per endpoint label the request counter is the latency observations plus the
\* requests that failed through the middleware plus the requests in flight; a
\* completed request left a latency observation if it was answered and an error
\* count if it failed, never both or neither; and no metric ever decreases.
C10_Accounting ==
    /\ []Accounting
    /\ [][/\ NeverDecreases(REQUEST_COUNT, REQUEST_COUNT')
          /\ NeverDecreases(REQUEST_LATENCY, REQUEST_LATENCY')
          /\ NeverDecreases(YFINANCE_CALLS, YFINANCE_CALLS')
          /\ NeverDecreases(SYMBOL_REQUESTS, SYMBOL_REQUESTS')
          /\ NeverDecreases(ERROR_COUNT, ERROR_COUNT')]_vars

\* On one path a request has failed through the middleware while another is in flight.
C10_Witness ==
    \E l \in Paths :
        /\ Failed(l) # {}
        /\ InFlight(l) # {}
        /\ Value(REQUEST_COUNT, l) = 2
        /\ Total(ERROR_COUNT) = 1

====
